---- MODULE Spec2Model ----
(***************************************************************************)
(* Model of donate/payments/views.py: the payment, upsell, newsletter and  *)
(* thank-you views of the donation flow, their gateway calls and the       *)
(* session hand-off between them.                                          *)
(*                                                                         *)
(* A request is processed in steps: the dispatch of the view up to its     *)
(* first gateway call, then one step per gateway call (a blocking network  *)
(* call), each followed by the code that handles its result.               *)
(***************************************************************************)
EXTENDS Integers, Sequences, FiniteSets, TLC

(***************************************************************************)
(* Bounds and input domains                                                *)
(***************************************************************************)
\* longest gateway error list of a card attempt
MaxErrs == 2

Reqs == {1, 2}
Https == {"GET", "POST"}
Amounts == {10, 50}
Currencies == {"usd", "eur"}
SourcePages == {7, 8}
Tokens == {"tok_a", "tok_b"}
LANGUAGE_CODE == "en-US"

(***************************************************************************)
(* Python values                                                           *)
(***************************************************************************)
\* None in a slot that otherwise holds a string
None == "None"
\* None in a slot that otherwise holds a number or a tuple
NoneVal == [kind |-> "none"]
Scalar(v) == [kind |-> "scalar", v |-> v]
\* a one-element Python tuple (v,)
Tuple1(v) == [kind |-> "tuple", items |-> <<v>>]

EmptyDict == [k \in {} |-> TRUE]
\* d.update(e) on a copy of d
Update(d, e) == e @@ d
\* d[k] = v on a copy of d
Put(d, k, v) == (k :> v) @@ d
HasKey(d, k) == k \in DOMAIN d

(***************************************************************************)
(* constants.py                                                            *)
(***************************************************************************)
FREQUENCY_SINGLE == "single"
FREQUENCY_MONTHLY == "monthly"
FREQUENCIES == {FREQUENCY_SINGLE, FREQUENCY_MONTHLY}
METHOD_CARD == "card"
METHOD_PAYPAL == "paypal"
\* the frequency URL argument may be anything
UrlFrequencies == FREQUENCIES \cup {"weekly"}

(***************************************************************************)
(* Gateway error codes and the messages of the card view                   *)
(***************************************************************************)
AddressCodes == {"PostalCodeInvalidCharacters", "PostalCodeIsTooLong"}
CardCodes == {"CreditCardTypeIsNotAccepted", "CvvIsInvalid", "CvvVerificationFailed",
              "ExpirationDateIsInvalid", "NumberIsInvalid"}
\* a code of the gateway that the view maps to nothing
OtherCodes == {"AmountIsRequired"}
ErrorCodes == AddressCodes \cup CardCodes \cup OtherCodes

MsgCardType == "The type of card you used is not accepted."
MsgCvv == "The CVV code you entered was invalid."
MsgExpiry == "The expiration date you entered was invalid."
MsgNumber == "The credit card number you entered was invalid."
MsgPostCode == "The post code you provided is not valid."
default_error_message ==
    "Sorry there was an error processing your payment. Please try again later or use a different payment method."
upsell_default_error_message ==
    "Sorry there was an error processing your payment. Please try again later."

client_errors ==
    [c \in CardCodes |->
        CASE c = "CreditCardTypeIsNotAccepted" -> MsgCardType
          [] c = "CvvIsInvalid" -> MsgCvv
          [] c = "CvvVerificationFailed" -> MsgCvv
          [] c = "ExpirationDateIsInvalid" -> MsgExpiry
          [] c = "NumberIsInvalid" -> MsgNumber]

address_errors == [c \in AddressCodes |-> MsgPostCode]

\* a filter that stops at the first mapped card code
filter_user_card_errors_first_match(deep_errors) ==
    LET hits == SelectSeq(deep_errors, LAMBDA c : c \in DOMAIN client_errors)
    IN  IF hits = <<>> THEN <<>> ELSE <<client_errors[Head(hits)]>>

RECURSIVE filter_user_card_errors(_)
\* the messages of the mapped card codes, one per matching error, in order
filter_user_card_errors(deep_errors) ==
    IF deep_errors = <<>> THEN <<>>
    ELSE IF Head(deep_errors) \in DOMAIN client_errors
         THEN <<client_errors[Head(deep_errors)]>> \o filter_user_card_errors(Tail(deep_errors))
         ELSE filter_user_card_errors(Tail(deep_errors))

\* a check that looks at the first error only
check_for_address_errors_first_only(deep_errors) ==
    IF deep_errors # <<>> /\ Head(deep_errors) \in DOMAIN address_errors
    THEN <<address_errors[Head(deep_errors)]>>
    ELSE <<>>

RECURSIVE check_for_address_errors(_)
\* the errors of the InvalidAddress raised at the first address code, or <<>>
\* when the loop ends without raising
check_for_address_errors(deep_errors) ==
    IF deep_errors = <<>> THEN <<>>
    ELSE IF Head(deep_errors) \in DOMAIN address_errors
         THEN <<address_errors[Head(deep_errors)]>>
         ELSE check_for_address_errors(Tail(deep_errors))

\* an error handler without the default message for unmapped codes
card_process_braintree_error_result_no_fallback(deep_errors) ==
    IF deep_errors # <<>>
    THEN IF check_for_address_errors(deep_errors) # <<>>
         THEN [gateway_address_errors |-> check_for_address_errors(deep_errors),
               form_errors |-> <<>>]
         ELSE [gateway_address_errors |-> <<>>,
               form_errors |-> filter_user_card_errors(deep_errors)]
    ELSE [gateway_address_errors |-> <<>>,
          form_errors |-> <<default_error_message>>]

\* CardPaymentView.process_braintree_error_result: what it leaves on the view
\* (gateway_address_errors, <<>> when the attribute is not set) and on the form
\* (the non-field errors added by form.add_error(None, ...))
card_process_braintree_error_result(deep_errors) ==
    IF deep_errors # <<>>
    THEN IF check_for_address_errors(deep_errors) # <<>>
         THEN [gateway_address_errors |-> check_for_address_errors(deep_errors),
               form_errors |-> <<>>]
         ELSE IF filter_user_card_errors(deep_errors) # <<>>
              THEN [gateway_address_errors |-> <<>>,
                    form_errors |-> filter_user_card_errors(deep_errors)]
              ELSE [gateway_address_errors |-> <<>>,
                    form_errors |-> <<default_error_message>>]
    ELSE [gateway_address_errors |-> <<>>,
          form_errors |-> <<default_error_message>>]

(***************************************************************************)
(* Gateway results                                                         *)
(***************************************************************************)
RECURSIVE SeqsUpTo(_, _)
SeqsUpTo(S, n) ==
    IF n = 0 THEN {<<>>}
    ELSE SeqsUpTo(S, n - 1) \cup
         {Append(s, x) : s \in {t \in SeqsUpTo(S, n - 1) : Len(t) = n - 1}, x \in S}

\* a failed result with its ordered error list (result.errors.deep_errors)
Failures(n) == {[kind |-> "fail", deep_errors |-> e] : e \in SeqsUpTo(ErrorCodes, n)}
\* the failed results of the whole-flow specification: no error, or one
FlowFailures ==
    {[kind |-> "fail", deep_errors |-> <<>>]} \cup
    {[kind |-> "fail", deep_errors |-> <<c>>] : c \in ErrorCodes}
\* the call raised instead of returning a result (network error, timeout)
Unavailable == [kind |-> "unavailable"]
\* customer.create succeeded: the vaulted payment method
CustomerCreated == {[kind |-> "ok", token |-> t, last_4 |-> "1111"] : t \in Tokens}
\* transaction.sale succeeded
SaleDone(amount) ==
    {[kind |-> "ok", id |-> "txn_1", settlement_amount |-> s, last_4 |-> "1111"] :
        s \in {NoneVal, Scalar(amount)}}
\* subscription.create succeeded
SubscriptionCreatedResult == [kind |-> "ok", id |-> "sub_1"]

is_success(result) == result.kind = "ok"
Raised(result) == result.kind = "unavailable"

(***************************************************************************)
(* utils.py                                                                *)
(***************************************************************************)
\* the monthly upgrade tiers of a currency, highest minimum first
monthly_upgrade(currency) ==
    IF currency = "usd"
    THEN <<[min |-> 50, value |-> 10], [min |-> 15, value |-> 5]>>
    ELSE <<[min |-> 45, value |-> 9]>>

RECURSIVE first_tier(_, _)
first_tier(tiers, amount) ==
    IF tiers = <<>> THEN NoneVal
    ELSE IF amount >= Head(tiers).min THEN Scalar(Head(tiers).value)
         ELSE first_tier(Tail(tiers), amount)

\* the suggested monthly amount for a single donation, or None
get_suggested_monthly_upgrade(currency, amount) ==
    IF currency \in Currencies THEN first_tier(monthly_upgrade(currency), amount)
    ELSE NoneVal

\* a copy of the details that later changes of the form cannot reach
freeze_transaction_details_for_session(details) ==
    [k \in DOMAIN details |-> details[k]]

(***************************************************************************)
(* settings and dates                                                      *)
(***************************************************************************)
get_merchant_account_id(currency) == <<"BRAINTREE_MERCHANT_ACCOUNTS", currency>>
get_plan_id(currency) == <<"BRAINTREE_PLANS", currency>>
get_custom_fields == EmptyDict

IsLeap(y) == (y % 4 = 0 /\ y % 100 # 0) \/ y % 400 = 0
DaysInMonth(y, m) ==
    IF m = 2 THEN (IF IsLeap(y) THEN 28 + 1 ELSE 28)
    ELSE IF m \in {4, 6, 9, 11} THEN 30 ELSE 31
Min(a, b) == IF a < b THEN a ELSE b
\* a month later with the day of the month kept as it is
add_one_month_no_clamp(d) ==
    LET y == IF d.month = 12 THEN d.year + 1 ELSE d.year
        m == IF d.month = 12 THEN 1 ELSE d.month + 1
    IN  [year |-> y, month |-> m, day |-> d.day]

\* date + relativedelta(months=1)
add_one_month(d) ==
    LET y == IF d.month = 12 THEN d.year + 1 ELSE d.year
        m == IF d.month = 12 THEN 1 ELSE d.month + 1
    IN  [year |-> y, month |-> m, day |-> Min(d.day, DaysInMonth(y, m))]
\* the dates on which the whole-flow specification submits an upsell
FlowDates == {[year |-> 2020, month |-> 1, day |-> 31]}
\* every date of a common year, a leap year and a century year that is no leap
\* year
Years == {2019, 2020, 2100}
Dates ==
    {d \in [year : Years, month : 1..12, day : 1..31] :
        d.day <= DaysInMonth(d.year, d.month)}

(***************************************************************************)
(* State                                                                   *)
(***************************************************************************)
VARIABLES
    session,    \* request.session: a dict with up to two keys
    req         \* per request slot: the view instance, its form, the gateway
                \* calls it has made, what it enqueued and its response

vars == <<session, req>>

CTD == "completed_transaction_details"
SPI == "source_page_id"

NoResponse == [kind |-> "none"]
Redirect(to) == [kind |-> "redirect", to |-> to]
Render(template) == [kind |-> "render", template |-> template]
Raise(exc) == [kind |-> "raise", exc |-> exc]
NotAllowed == [kind |-> "not_allowed"]

NoPaymentMethod == [token |-> None, last_4 |-> None]

IdleReq ==
    [pc |-> "idle", view |-> None, http |-> None,
     payment_frequency |-> None, currency |-> None, source_page_id |-> 0,
     cleaned_data |-> EmptyDict, send_data_to_basket |-> TRUE,
     payment_method |-> NoPaymentMethod, today |-> NoneVal, start_date |-> NoneVal,
     form_errors |-> <<>>, gateway_address_errors |-> <<>>,
     calls |-> <<>>, enqueued |-> <<>>, wrote_session |-> FALSE,
     response |-> NoResponse]

\* the request has been answered: the view instance and its form are gone, what
\* stays is the response, what the template shows and what the request did
Answered(view, http, response, form_errors, gateway_address_errors, calls, enqueued, wrote) ==
    [IdleReq EXCEPT !.pc = "done", !.view = view, !.http = http,
                    !.response = response, !.form_errors = form_errors,
                    !.gateway_address_errors = gateway_address_errors,
                    !.calls = calls, !.enqueued = enqueued, !.wrote_session = wrote]

\* answered before any gateway call
AnsweredAtOnce(view, http, response) ==
    Answered(view, http, response, <<>>, <<>>, <<>>, <<>>, FALSE)

Call(op, args, result) == [op |-> op, args |-> args, result |-> result]

Init ==
    /\ session = EmptyDict
    /\ req = [r \in Reqs |-> IdleReq]

\* a request takes the first slot that holds no request
InFlight(r) == req[r].pc \notin {"idle", "done"}
\* a server that takes a request of a session only when no other request of
\* that session is being handled
Free_one_at_a_time(r) ==
    /\ req[r].pc = "idle"
    /\ \A q \in Reqs : (q < r) => req[q].pc # "idle"
    /\ \A q \in Reqs : req[q].pc \in {"idle", "done"}

Free(r) ==
    /\ req[r].pc = "idle"
    /\ \A q \in Reqs : (q < r) => req[q].pc # "idle"

\* the assumption of one active request per session at a time: no other
\* request of the session is being handled.  Nothing in the views checks it
OneAtATime == \A q \in Reqs : req[q].pc = "idle"

(***************************************************************************)
(* BraintreePaymentMixin.success                                           *)
(***************************************************************************)
\* queue.enqueue is called outside any try block: when the queue does not take
\* the job (queued = FALSE) its exception leaves the view
EnqueueOutcomes == BOOLEAN
QueueError == Raise("QueueError")
\* a call of queue.enqueue(task, payload), and whether the queue took the job
Enqueue(task, payload, queued) == [task |-> task, payload |-> payload, queued |-> queued]

\* a success() that enqueues the details of the view as they are, before the
\* source page and the locale are added
success_enqueues_unfrozen(sess, details, source_page_id, send_data_to_basket, success_url, queued) ==
    LET d1 == Put(details, "source_page_id", source_page_id)
        d2 == Put(d1, "locale", LANGUAGE_CODE)
        frozen == freeze_transaction_details_for_session(d2)
    IN  [session |-> Put(Put(sess, CTD, frozen), SPI, source_page_id),
         enqueued |-> IF send_data_to_basket
                      THEN <<Enqueue("send_transaction_to_basket", details, queued)>>
                      ELSE <<>>,
         response |-> IF send_data_to_basket /\ ~queued THEN QueueError
                      ELSE Redirect(success_url)]

\* a success() that merges the details into the record already in the session
success_merges(sess, details, source_page_id, send_data_to_basket, success_url, queued) ==
    LET d1 == Put(details, "source_page_id", source_page_id)
        d2 == Put(d1, "locale", LANGUAGE_CODE)
        frozen == freeze_transaction_details_for_session(d2)
        old == IF HasKey(sess, CTD) THEN sess[CTD] ELSE EmptyDict
    IN  [session |-> Put(Put(sess, CTD, Update(old, frozen)), SPI, source_page_id),
         enqueued |-> IF send_data_to_basket
                      THEN <<Enqueue("send_transaction_to_basket", frozen, queued)>>
                      ELSE <<>>,
         response |-> IF send_data_to_basket /\ ~queued THEN QueueError
                      ELSE Redirect(success_url)]

\* what success() does with the details of the view: the new session, what is
\* enqueued, and the redirect
success(sess, details, source_page_id, send_data_to_basket, success_url, queued) ==
    LET d1 == Put(details, "source_page_id", source_page_id)
        d2 == Put(d1, "locale", LANGUAGE_CODE)
        frozen == freeze_transaction_details_for_session(d2)
    IN  [session |-> Put(Put(sess, CTD, frozen), SPI, source_page_id),
         enqueued |-> IF send_data_to_basket
                      THEN <<Enqueue("send_transaction_to_basket", frozen, queued)>>
                      ELSE <<>>,
         response |-> IF send_data_to_basket /\ ~queued THEN QueueError
                      ELSE Redirect(success_url)]

(***************************************************************************)
(* CardPaymentView                                                         *)
(***************************************************************************)
CardView == "CardPaymentView"
CardTemplate == "payment/card.html"

\* the cleaned data of BraintreeCardPaymentForm
CardCleanedData(amount) ==
    [first_name |-> "Ada", last_name |-> "Donor", email |-> "ada@example.org",
     address_line_1 |-> "1 Main St", town |-> "Springfield", post_code |-> "12345",
     country |-> "US", amount |-> amount, braintree_nonce |-> "card-nonce"]

get_address_info(form_data) ==
    [street_address |-> form_data["address_line_1"], locality |-> form_data["town"],
     postal_code |-> form_data["post_code"], country_code_alpha2 |-> form_data["country"]]

card_get_success_url(payment_frequency) ==
    IF payment_frequency = FREQUENCY_SINGLE THEN "payments:card_upsell"
    ELSE "payments:newsletter_signup"

\* kwargs.get(key, default) of the keyword arguments of success()
Get(d, k, default) == IF k \in DOMAIN d THEN d[k] ELSE default

\* details that never get the payment_method_token keyword
card_get_transaction_details_for_session_no_token(me, kwargs) ==
    Update(me.cleaned_data,
           [transaction_id |-> kwargs["transaction_id"],
            settlement_amount |-> Get(kwargs, "settlement_amount", NoneVal),
            last_4 |-> kwargs["last_4"],
            payment_method |-> METHOD_CARD,
            currency |-> me.currency,
            payment_frequency |-> me.payment_frequency,
            payment_method_token |-> None])
card_get_transaction_details_for_session(me, kwargs) ==
    Update(me.cleaned_data,
           [transaction_id |-> kwargs["transaction_id"],
            settlement_amount |-> Get(kwargs, "settlement_amount", NoneVal),
            last_4 |-> kwargs["last_4"],
            payment_method |-> METHOD_CARD,
            currency |-> me.currency,
            payment_frequency |-> me.payment_frequency,
            payment_method_token |-> Get(kwargs, "payment_method_token", None)])

\* an error handling that deletes the customer the attempt has created
card_form_invalid_with_rollback(me, calls, result) ==
    LET o == card_process_braintree_error_result(result.deep_errors)
        undone == IF Len(calls) = 2
                  THEN Append(calls, Call("customer.delete",
                                          [payment_method_token |-> me.payment_method.token],
                                          [kind |-> "ok"]))
                  ELSE calls
    IN  Answered(CardView, me.http, Render(CardTemplate),
                 o.form_errors, o.gateway_address_errors, undone, <<>>, FALSE)

\* process_braintree_error_result followed by form_invalid
card_form_invalid(me, calls, result) ==
    LET o == card_process_braintree_error_result(result.deep_errors)
    IN  Answered(CardView, me.http, Render(CardTemplate),
                 o.form_errors, o.gateway_address_errors, calls, <<>>, FALSE)

\* the gateway call raised: nothing in the view catches it
Propagates(me, calls) ==
    Answered(me.view, me.http, Raise("GatewayUnavailable"), <<>>, <<>>, calls, <<>>, FALSE)

\* the view answered with what success() returned
Succeeded(me, calls, s) ==
    Answered(me.view, me.http, s.response, <<>>, <<>>, calls, s.enqueued, TRUE)

\* dispatch, and for a valid POST form_valid up to the call of create_customer
card_dispatch(http, frequency, start_ok, currency, source_page_id, form_ok, amount, send_data_to_basket) ==
    IF frequency \notin FREQUENCIES THEN AnsweredAtOnce(CardView, http, Raise("Http404"))
    ELSE IF ~start_ok THEN AnsweredAtOnce(CardView, http, Redirect("/"))
    ELSE IF http = "GET" \/ ~form_ok THEN AnsweredAtOnce(CardView, http, Render(CardTemplate))
    ELSE [IdleReq EXCEPT !.pc = "create_customer", !.view = CardView, !.http = http,
                         !.payment_frequency = frequency, !.currency = currency,
                         !.source_page_id = source_page_id,
                         !.cleaned_data = CardCleanedData(amount),
                         !.send_data_to_basket = send_data_to_basket]

\* a version that keeps the nonce of the form as the token of the payment method
card_customer_result_keeps_nonce(me, result) ==
    LET calls == Append(me.calls,
                    Call("customer.create",
                         [first_name |-> me.cleaned_data["first_name"],
                          last_name |-> me.cleaned_data["last_name"],
                          email |-> me.cleaned_data["email"],
                          payment_method_nonce |-> me.cleaned_data["braintree_nonce"],
                          custom_fields |-> get_custom_fields,
                          credit_card |-> [billing_address |-> get_address_info(me.cleaned_data)]],
                         result))
    IN  IF Raised(result) THEN Propagates(me, calls)
        ELSE IF is_success(result)
        THEN [me EXCEPT !.calls = calls,
                        !.payment_method = [token |-> me.cleaned_data["braintree_nonce"],
                                            last_4 |-> result.last_4],
                        !.pc = IF me.payment_frequency = FREQUENCY_SINGLE
                               THEN "sale" ELSE "subscription"]
        ELSE card_form_invalid(me, calls, result)

\* create_customer has returned: the first half of process_single_transaction
\* and of process_monthly_transaction
card_customer_result(me, result) ==
    LET calls == Append(me.calls,
                    Call("customer.create",
                         [first_name |-> me.cleaned_data["first_name"],
                          last_name |-> me.cleaned_data["last_name"],
                          email |-> me.cleaned_data["email"],
                          payment_method_nonce |-> me.cleaned_data["braintree_nonce"],
                          custom_fields |-> get_custom_fields,
                          credit_card |-> [billing_address |-> get_address_info(me.cleaned_data)]],
                         result))
    IN  IF Raised(result) THEN Propagates(me, calls)
        ELSE IF is_success(result)
        THEN [me EXCEPT !.calls = calls,
                        !.payment_method = [token |-> result.token, last_4 |-> result.last_4],
                        !.pc = IF me.payment_frequency = FREQUENCY_SINGLE
                               THEN "sale" ELSE "subscription"]
        ELSE card_form_invalid(me, calls, result)

\* transaction.sale has returned: the second half of process_single_transaction
process_single_transaction(sess, me, result, queued) ==
    LET calls == Append(me.calls,
                    Call("transaction.sale",
                         [amount |-> me.cleaned_data["amount"],
                          merchant_account_id |-> get_merchant_account_id(me.currency),
                          payment_method_token |-> me.payment_method.token,
                          options |-> [submit_for_settlement |-> TRUE]],
                         result))
    IN  IF Raised(result) THEN [session |-> sess, req |-> Propagates(me, calls)]
        ELSE IF is_success(result)
        THEN LET kwargs == [payment_method_token |-> me.payment_method.token,
                            transaction_id |-> result.id,
                            settlement_amount |-> result.settlement_amount,
                            last_4 |-> result.last_4]
                 s == success(sess, card_get_transaction_details_for_session(me, kwargs),
                              me.source_page_id, me.send_data_to_basket,
                              card_get_success_url(me.payment_frequency), queued)
             IN  [session |-> s.session, req |-> Succeeded(me, calls, s)]
        ELSE [session |-> sess, req |-> card_form_invalid(me, calls, result)]

\* subscription.create has returned: the second half of process_monthly_transaction
process_monthly_transaction(sess, me, result, queued) ==
    LET calls == Append(me.calls,
                    Call("subscription.create",
                         [plan_id |-> get_plan_id(me.currency),
                          merchant_account_id |-> get_merchant_account_id(me.currency),
                          payment_method_token |-> me.payment_method.token,
                          price |-> me.cleaned_data["amount"]],
                         result))
    IN  IF Raised(result) THEN [session |-> sess, req |-> Propagates(me, calls)]
        ELSE IF is_success(result)
        THEN LET kwargs == [transaction_id |-> result.id,
                            last_4 |-> me.payment_method.last_4]
                 s == success(sess, card_get_transaction_details_for_session(me, kwargs),
                              me.source_page_id, me.send_data_to_basket,
                              card_get_success_url(me.payment_frequency), queued)
             IN  [session |-> s.session, req |-> Succeeded(me, calls, s)]
        ELSE [session |-> sess, req |-> card_form_invalid(me, calls, result)]

CardPaymentRequest(r, http, frequency, start_ok, currency, source_page_id, form_ok, amount, send_data_to_basket) ==
    /\ Free(r)
    /\ req' = [req EXCEPT ![r] = card_dispatch(http, frequency, start_ok, currency,
                                       source_page_id, form_ok, amount, send_data_to_basket)]
    /\ UNCHANGED session

CardCreateCustomer(r, result) ==
    /\ req[r].view = CardView
    /\ req[r].pc = "create_customer"
    /\ req' = [req EXCEPT ![r] = card_customer_result(req[r], result)]
    /\ UNCHANGED session

CardSale(r, result, queued) ==
    /\ req[r].view = CardView
    /\ req[r].pc = "sale"
    /\ LET o == process_single_transaction(session, req[r], result, queued)
       IN  /\ session' = o.session
           /\ req' = [req EXCEPT ![r] = o.req]

CardSubscription(r, result, queued) ==
    /\ req[r].view = CardView
    /\ req[r].pc = "subscription"
    /\ LET o == process_monthly_transaction(session, req[r], result, queued)
       IN  /\ session' = o.session
           /\ req' = [req EXCEPT ![r] = o.req]

(***************************************************************************)
(* PaypalPaymentView                                                       *)
(***************************************************************************)
PaypalView == "PaypalPaymentView"
PaypalTemplate == "payment/paypal.html"

\* the cleaned data of BraintreePaypalPaymentForm
PaypalCleanedData(frequency, currency, source_page_id, amount) ==
    [frequency |-> frequency, currency |-> currency, source_page_id |-> source_page_id,
     amount |-> amount, braintree_nonce |-> "paypal-nonce"]

paypal_get_success_url(payment_frequency) ==
    IF payment_frequency = FREQUENCY_SINGLE THEN "payments:paypal_upsell"
    ELSE "payments:newsletter_signup"

\* details that name the card as the payment method
paypal_get_transaction_details_for_session_as_card(me, result) ==
    [amount |-> me.cleaned_data["amount"],
     settlement_amount |-> IF me.payment_frequency = FREQUENCY_SINGLE
                           THEN Tuple1(result.settlement_amount)
                           ELSE NoneVal,
     transaction_id |-> result.id,
     payment_method |-> METHOD_CARD,
     currency |-> me.currency,
     payment_frequency |-> me.payment_frequency]
paypal_get_transaction_details_for_session(me, result) ==
    [amount |-> me.cleaned_data["amount"],
     settlement_amount |-> IF me.payment_frequency = FREQUENCY_SINGLE
                           THEN Tuple1(result.settlement_amount)
                           ELSE NoneVal,
     transaction_id |-> result.id,
     payment_method |-> METHOD_PAYPAL,
     currency |-> me.currency,
     payment_frequency |-> me.payment_frequency]

\* process_braintree_error_result: self.get(self.request) renders the entry view
paypal_process_braintree_error_result(me, calls) ==
    Answered(PaypalView, me.http, Render(PaypalTemplate), <<>>, <<>>, calls, <<>>, FALSE)

\* get, or post up to the first gateway call of form_valid
paypal_dispatch(http, form_ok, frequency, currency, source_page_id, amount, send_data_to_basket) ==
    IF http = "GET" \/ ~form_ok THEN AnsweredAtOnce(PaypalView, http, Render(PaypalTemplate))
    ELSE [IdleReq EXCEPT !.pc = IF frequency = FREQUENCY_SINGLE
                                THEN "sale" ELSE "create_customer",
                         !.view = PaypalView, !.http = http,
                         !.payment_frequency = frequency, !.currency = currency,
                         !.source_page_id = source_page_id,
                         !.cleaned_data = PaypalCleanedData(frequency, currency,
                                                            source_page_id, amount),
                         !.send_data_to_basket = send_data_to_basket]

\* a version that stores the details whatever the result says
paypal_form_valid_result_unchecked(sess, me, calls, result, queued) ==
    IF Raised(result) THEN [session |-> sess, req |-> Propagates(me, calls)]
    ELSE LET res == IF is_success(result) THEN result
                    ELSE [kind |-> "fail", id |-> None, settlement_amount |-> NoneVal]
             s == success(sess, paypal_get_transaction_details_for_session(me, res),
                          me.source_page_id, me.send_data_to_basket,
                          paypal_get_success_url(me.payment_frequency), queued)
         IN  [session |-> s.session, req |-> Succeeded(me, calls, s)]

\* the end of form_valid, after the sale or the subscription call has returned
paypal_form_valid_result(sess, me, calls, result, queued) ==
    IF Raised(result) THEN [session |-> sess, req |-> Propagates(me, calls)]
    ELSE IF is_success(result)
    THEN LET s == success(sess, paypal_get_transaction_details_for_session(me, result),
                          me.source_page_id, me.send_data_to_basket,
                          paypal_get_success_url(me.payment_frequency), queued)
         IN  [session |-> s.session, req |-> Succeeded(me, calls, s)]
    ELSE [session |-> sess, req |-> paypal_process_braintree_error_result(me, calls)]

\* form_valid of a single payment: the sale with the one-time nonce has returned
paypal_sale_result(sess, me, result, queued) ==
    paypal_form_valid_result(sess, me,
        Append(me.calls,
               Call("transaction.sale",
                    [amount |-> me.cleaned_data["amount"],
                     merchant_account_id |-> get_merchant_account_id(me.currency),
                     custom_fields |-> get_custom_fields,
                     payment_method_nonce |-> me.cleaned_data["braintree_nonce"],
                     options |-> [submit_for_settlement |-> TRUE]],
                    result)),
        result, queued)

\* a version whose failure branch does not return
paypal_customer_result_no_return(me, result) ==
    LET calls == Append(me.calls,
                    Call("customer.create",
                         [payment_method_nonce |-> me.cleaned_data["braintree_nonce"],
                          custom_fields |-> get_custom_fields],
                         result))
    IN  IF Raised(result) THEN Propagates(me, calls)
        ELSE [me EXCEPT !.calls = calls,
                        !.payment_method =
                            IF is_success(result)
                            THEN [token |-> result.token, last_4 |-> result.last_4]
                            ELSE NoPaymentMethod,
                        !.pc = "subscription"]

\* form_valid of a monthly payment: customer.create has returned
paypal_customer_result(me, result) ==
    LET calls == Append(me.calls,
                    Call("customer.create",
                         [payment_method_nonce |-> me.cleaned_data["braintree_nonce"],
                          custom_fields |-> get_custom_fields],
                         result))
    IN  IF Raised(result) THEN Propagates(me, calls)
        ELSE IF is_success(result)
        THEN [me EXCEPT !.calls = calls,
                        !.payment_method = [token |-> result.token, last_4 |-> result.last_4],
                        !.pc = "subscription"]
        ELSE paypal_process_braintree_error_result(me, calls)

\* form_valid of a monthly payment: subscription.create has returned
paypal_subscription_result(sess, me, result, queued) ==
    paypal_form_valid_result(sess, me,
        Append(me.calls,
               Call("subscription.create",
                    [plan_id |-> get_plan_id(me.currency),
                     merchant_account_id |-> get_merchant_account_id(me.currency),
                     payment_method_token |-> me.payment_method.token,
                     price |-> me.cleaned_data["amount"]],
                    result)),
        result, queued)

PaypalPaymentRequest(r, http, form_ok, frequency, currency, source_page_id, amount, send_data_to_basket) ==
    /\ Free(r)
    /\ req' = [req EXCEPT ![r] = paypal_dispatch(http, form_ok, frequency, currency,
                                       source_page_id, amount, send_data_to_basket)]
    /\ UNCHANGED session

PaypalSale(r, result, queued) ==
    /\ req[r].view = PaypalView
    /\ req[r].pc = "sale"
    /\ LET o == paypal_sale_result(session, req[r], result, queued)
       IN  /\ session' = o.session
           /\ req' = [req EXCEPT ![r] = o.req]

PaypalCreateCustomer(r, result) ==
    /\ req[r].view = PaypalView
    /\ req[r].pc = "create_customer"
    /\ req' = [req EXCEPT ![r] = paypal_customer_result(req[r], result)]
    /\ UNCHANGED session

PaypalSubscription(r, result, queued) ==
    /\ req[r].view = PaypalView
    /\ req[r].pc = "subscription"
    /\ LET o == paypal_subscription_result(session, req[r], result, queued)
       IN  /\ session' = o.session
           /\ req' = [req EXCEPT ![r] = o.req]

(***************************************************************************)
(* TransactionRequiredMixin                                                *)
(***************************************************************************)
\* not request.session.get('completed_transaction_details')
NoCompletedTransaction(sess) ==
    \/ ~HasKey(sess, CTD)
    \/ sess[CTD] = EmptyDict

(***************************************************************************)
(* CardUpsellView                                                          *)
(***************************************************************************)
CardUpsellView == "CardUpsellView"
CardUpsellTemplate == "payment/card_upsell.html"
NewsletterUrl == "payments:newsletter_signup"

\* the cleaned data of UpsellForm
UpsellCleanedData(amount) == [amount |-> amount]

\* a dispatch that checks the frequency of the last transaction only
upsell_dispatch_answer_no_method_check(sess, method) ==
    IF ~HasKey(sess, CTD) THEN Raise("KeyError")
    ELSE IF sess[CTD]["payment_frequency"] # FREQUENCY_SINGLE
    THEN Redirect(NewsletterUrl)
    ELSE IF get_suggested_monthly_upgrade(sess[CTD]["currency"], sess[CTD]["amount"]) = NoneVal
    THEN Redirect(NewsletterUrl)
    ELSE IF NoCompletedTransaction(sess) THEN Redirect("/")
    ELSE NoResponse

\* the checks of an upsell view's dispatch, in the order of the code, up to
\* the handler of the HTTP method; "" when dispatch goes on to the handler
upsell_dispatch_answer(sess, method) ==
    IF ~HasKey(sess, CTD) THEN Raise("KeyError")
    ELSE IF ~(/\ sess[CTD]["payment_frequency"] = FREQUENCY_SINGLE
              /\ sess[CTD]["payment_method"] = method)
    THEN Redirect(NewsletterUrl)
    ELSE IF get_suggested_monthly_upgrade(sess[CTD]["currency"], sess[CTD]["amount"]) = NoneVal
    THEN Redirect(NewsletterUrl)
    ELSE IF NoCompletedTransaction(sess) THEN Redirect("/")
    ELSE NoResponse

\* a version that reads the id of the original transaction
upsell_payment_method_token_wrong_key(sess) == sess[CTD]["transaction_id"]

\* the token form_valid reads from the session record
upsell_payment_method_token(sess) == sess[CTD]["payment_method_token"]

\* dispatch, and for a valid POST form_valid up to the call of subscription.create
card_upsell_dispatch(sess, http, form_ok, amount, send_data_to_basket, today) ==
    LET a == upsell_dispatch_answer(sess, METHOD_CARD)
    IN  IF a # NoResponse THEN AnsweredAtOnce(CardUpsellView, http, a)
        ELSE IF http = "GET" \/ ~form_ok
        THEN AnsweredAtOnce(CardUpsellView, http, Render(CardUpsellTemplate))
        ELSE IF ~HasKey(sess[CTD], "payment_method_token")
        THEN AnsweredAtOnce(CardUpsellView, http, Raise("KeyError"))
        ELSE [IdleReq EXCEPT !.pc = "subscription", !.view = CardUpsellView, !.http = http,
                             !.payment_method =
                                 [token |-> upsell_payment_method_token(sess), last_4 |-> None],
                             !.currency = sess[CTD]["currency"],
                             !.today = today,
                             !.start_date = add_one_month(today),
                             !.cleaned_data = UpsellCleanedData(amount),
                             !.send_data_to_basket = send_data_to_basket]

\* details that keep the frequency of the payment the upsell follows
card_upsell_get_transaction_details_for_session_single(me, result, currency) ==
    Update(me.cleaned_data,
           [transaction_id |-> result.id,
            payment_method |-> METHOD_CARD,
            currency |-> currency,
            payment_frequency |-> FREQUENCY_SINGLE])

card_upsell_get_transaction_details_for_session(me, result, currency) ==
    Update(me.cleaned_data,
           [transaction_id |-> result.id,
            payment_method |-> METHOD_CARD,
            currency |-> currency,
            payment_frequency |-> FREQUENCY_MONTHLY])

\* process_braintree_error_result of both upsell views
upsell_process_braintree_error_result(me, calls) ==
    Answered(me.view, me.http,
             Render(IF me.view = CardUpsellView THEN CardUpsellTemplate
                    ELSE "payment/paypal_upsell.html"),
             <<upsell_default_error_message>>, <<>>, calls, <<>>, FALSE)

\* get_source_page_id of both upsell views: request.session.get('source_page_id')
upsell_get_source_page_id(sess) == Get(sess, SPI, NoneVal)

\* form_valid after subscription.create has returned
card_upsell_form_valid(sess, me, result, queued) ==
    LET calls == Append(me.calls,
                    Call("subscription.create",
                         [plan_id |-> get_plan_id(me.currency),
                          merchant_account_id |-> get_merchant_account_id(me.currency),
                          payment_method_token |-> me.payment_method.token,
                          first_billing_date |-> me.start_date,
                          price |-> me.cleaned_data["amount"]],
                         result))
    IN  IF Raised(result) THEN [session |-> sess, req |-> Propagates(me, calls)]
        ELSE IF is_success(result)
        THEN LET s == success(sess,
                              card_upsell_get_transaction_details_for_session(me, result, me.currency),
                              upsell_get_source_page_id(sess), me.send_data_to_basket,
                              NewsletterUrl, queued)
             IN  [session |-> s.session, req |-> Succeeded(me, calls, s)]
        ELSE [session |-> sess, req |-> upsell_process_braintree_error_result(me, calls)]

CardUpsellRequest(r, http, form_ok, amount, send_data_to_basket, today) ==
    /\ Free(r)
    /\ req' = [req EXCEPT ![r] = card_upsell_dispatch(session, http, form_ok, amount,
                                       send_data_to_basket, today)]
    /\ UNCHANGED session

CardUpsellSubscription(r, result, queued) ==
    /\ req[r].view = CardUpsellView
    /\ req[r].pc = "subscription"
    /\ LET o == card_upsell_form_valid(session, req[r], result, queued)
       IN  /\ session' = o.session
           /\ req' = [req EXCEPT ![r] = o.req]

(***************************************************************************)
(* PaypalUpsellView                                                        *)
(***************************************************************************)
PaypalUpsellView == "PaypalUpsellView"
PaypalUpsellTemplate == "payment/paypal_upsell.html"

\* the cleaned data of BraintreePaypalUpsellForm
PaypalUpsellCleanedData(currency, amount) ==
    [currency |-> currency, amount |-> amount, braintree_nonce |-> "paypal-upsell-nonce"]

\* dispatch, and for a valid POST form_valid up to the call of customer.create
paypal_upsell_dispatch(sess, http, form_ok, currency, amount, send_data_to_basket) ==
    LET a == upsell_dispatch_answer(sess, METHOD_PAYPAL)
    IN  IF a # NoResponse THEN AnsweredAtOnce(PaypalUpsellView, http, a)
        ELSE IF http = "GET" \/ ~form_ok
        THEN AnsweredAtOnce(PaypalUpsellView, http, Render(PaypalUpsellTemplate))
        ELSE [IdleReq EXCEPT !.pc = "create_customer", !.view = PaypalUpsellView,
                             !.http = http, !.currency = currency,
                             !.cleaned_data = PaypalUpsellCleanedData(currency, amount),
                             !.send_data_to_basket = send_data_to_basket]

\* form_valid after customer.create has returned, up to the call of
\* subscription.create
paypal_upsell_customer_result(me, result, today) ==
    LET calls == Append(me.calls,
                    Call("customer.create",
                         [payment_method_nonce |-> me.cleaned_data["braintree_nonce"],
                          custom_fields |-> get_custom_fields],
                         result))
    IN  IF Raised(result) THEN Propagates(me, calls)
        ELSE IF is_success(result)
        THEN [me EXCEPT !.calls = calls,
                        !.payment_method = [token |-> result.token, last_4 |-> result.last_4],
                        !.today = today,
                        !.start_date = add_one_month(today),
                        !.pc = "subscription"]
        ELSE upsell_process_braintree_error_result(me, calls)

paypal_upsell_get_transaction_details_for_session(me, result) ==
    Update(me.cleaned_data,
           [transaction_id |-> result.id,
            payment_method |-> METHOD_PAYPAL,
            currency |-> me.currency,
            payment_frequency |-> FREQUENCY_MONTHLY])

\* form_valid after subscription.create has returned
paypal_upsell_form_valid(sess, me, result, queued) ==
    LET calls == Append(me.calls,
                    Call("subscription.create",
                         [plan_id |-> get_plan_id(me.currency),
                          merchant_account_id |-> get_merchant_account_id(me.currency),
                          payment_method_token |-> me.payment_method.token,
                          first_billing_date |-> me.start_date,
                          price |-> me.cleaned_data["amount"]],
                         result))
    IN  IF Raised(result) THEN [session |-> sess, req |-> Propagates(me, calls)]
        ELSE IF is_success(result)
        THEN LET s == success(sess,
                              paypal_upsell_get_transaction_details_for_session(me, result),
                              upsell_get_source_page_id(sess), me.send_data_to_basket,
                              NewsletterUrl, queued)
             IN  [session |-> s.session, req |-> Succeeded(me, calls, s)]
        ELSE [session |-> sess, req |-> upsell_process_braintree_error_result(me, calls)]

PaypalUpsellRequest(r, http, form_ok, currency, amount, send_data_to_basket) ==
    /\ Free(r)
    /\ req' = [req EXCEPT ![r] = paypal_upsell_dispatch(session, http, form_ok, currency,
                                       amount, send_data_to_basket)]
    /\ UNCHANGED session

PaypalUpsellCreateCustomer(r, result, today) ==
    /\ req[r].view = PaypalUpsellView
    /\ req[r].pc = "create_customer"
    /\ req' = [req EXCEPT ![r] = paypal_upsell_customer_result(req[r], result, today)]
    /\ UNCHANGED session

PaypalUpsellSubscription(r, result, queued) ==
    /\ req[r].view = PaypalUpsellView
    /\ req[r].pc = "subscription"
    /\ LET o == paypal_upsell_form_valid(session, req[r], result, queued)
       IN  /\ session' = o.session
           /\ req' = [req EXCEPT ![r] = o.req]

(***************************************************************************)
(* NewsletterSignupView and ThankYouView                                   *)
(***************************************************************************)
NewsletterView == "NewsletterSignupView"
ThankYouView == "ThankYouView"
CompletedUrl == "payments:completed"

\* the cleaned data of NewsletterSignupForm
NewsletterCleanedData == [email |-> "ada@example.org", privacy |-> "on"]
\* request.get_full_path()
NewsletterPath == "/en-US/newsletter-signup/"

\* TransactionRequiredMixin.dispatch, then get or post
newsletter_dispatch(sess, http, form_ok, subscribed, send_data_to_basket, queued) ==
    IF NoCompletedTransaction(sess) THEN AnsweredAtOnce(NewsletterView, http, Redirect("/"))
    ELSE IF http = "GET"
    THEN IF subscribed = "1" THEN AnsweredAtOnce(NewsletterView, http, Redirect(CompletedUrl))
         ELSE AnsweredAtOnce(NewsletterView, http, Render("payment/newsletter_signup.html"))
    ELSE IF ~form_ok
    THEN AnsweredAtOnce(NewsletterView, http, Render("payment/newsletter_signup.html"))
    ELSE LET cleaned_data == NewsletterCleanedData
             \* data is built and dropped: what is enqueued is form.cleaned_data
             data == Put(Put(cleaned_data, "source_url", NewsletterPath),
                         "lang", LANGUAGE_CODE)
         IN  Answered(NewsletterView, http,
                      IF send_data_to_basket /\ ~queued THEN QueueError
                      ELSE Redirect(CompletedUrl),
                      <<>>, <<>>, <<>>,
                      IF send_data_to_basket
                      THEN <<Enqueue("send_newsletter_subscription_to_basket",
                                     cleaned_data, queued)>>
                      ELSE <<>>,
                      FALSE)

\* TransactionRequiredMixin.dispatch, then TemplateView, which has no post
thank_you_dispatch(sess, http) ==
    IF NoCompletedTransaction(sess) THEN AnsweredAtOnce(ThankYouView, http, Redirect("/"))
    ELSE IF http = "GET" THEN AnsweredAtOnce(ThankYouView, http, Render("payment/thank_you.html"))
    ELSE AnsweredAtOnce(ThankYouView, http, NotAllowed)

NewsletterRequest(r, http, form_ok, subscribed, send_data_to_basket, queued) ==
    /\ Free(r)
    /\ req' = [req EXCEPT ![r] = newsletter_dispatch(session, http, form_ok, subscribed,
                                                     send_data_to_basket, queued)]
    /\ UNCHANGED session

ThankYouRequest(r, http) ==
    /\ Free(r)
    /\ req' = [req EXCEPT ![r] = thank_you_dispatch(session, http)]
    /\ UNCHANGED session

(***************************************************************************)
(* The response has been returned and the view instance dropped            *)
(***************************************************************************)
Finish(r) ==
    /\ req[r].pc = "done"
    /\ req' = [req EXCEPT ![r] = IdleReq]
    /\ UNCHANGED session

(***************************************************************************)
(* Specifications                                                          *)
(***************************************************************************)
FlowResults(ok) == ok \cup FlowFailures \cup {Unavailable}
CardResults(ok) == ok \cup Failures(MaxErrs) \cup {Unavailable}
SaleResults(r) ==
    IF req[r].pc = "sale" THEN SaleDone(req[r].cleaned_data["amount"]) ELSE {}
SubscriptionResults == {SubscriptionCreatedResult}

\* the requests of one session under the assumption of one active request per
\* session at a time: a request starts only when no other is being handled.
\* The views do not enforce this
NextOneAtATime ==
    \/ \E r \in Reqs, http \in Https, frequency \in UrlFrequencies, start_ok \in BOOLEAN,
          currency \in Currencies, page \in SourcePages, form_ok \in BOOLEAN,
          amount \in Amounts, sdb \in BOOLEAN :
            OneAtATime /\ CardPaymentRequest(r, http, frequency, start_ok, currency, page,
                                             form_ok, amount, sdb)
    \/ \E r \in Reqs, result \in FlowResults(CustomerCreated) : CardCreateCustomer(r, result)
    \/ \E r \in Reqs, queued \in EnqueueOutcomes :
            \E result \in FlowResults(SaleResults(r)) : CardSale(r, result, queued)
    \/ \E r \in Reqs, result \in FlowResults(SubscriptionResults), queued \in EnqueueOutcomes :
            CardSubscription(r, result, queued)
    \/ \E r \in Reqs, http \in Https, form_ok \in BOOLEAN, frequency \in FREQUENCIES,
          currency \in Currencies, page \in SourcePages, amount \in Amounts, sdb \in BOOLEAN :
            OneAtATime /\ PaypalPaymentRequest(r, http, form_ok, frequency, currency, page,
                                               amount, sdb)
    \/ \E r \in Reqs, queued \in EnqueueOutcomes :
            \E result \in FlowResults(SaleResults(r)) : PaypalSale(r, result, queued)
    \/ \E r \in Reqs, result \in FlowResults(CustomerCreated) : PaypalCreateCustomer(r, result)
    \/ \E r \in Reqs, result \in FlowResults(SubscriptionResults), queued \in EnqueueOutcomes :
            PaypalSubscription(r, result, queued)
    \/ \E r \in Reqs, http \in Https, form_ok \in BOOLEAN, amount \in Amounts,
          sdb \in BOOLEAN, today \in FlowDates :
            OneAtATime /\ CardUpsellRequest(r, http, form_ok, amount, sdb, today)
    \/ \E r \in Reqs, result \in FlowResults(SubscriptionResults), queued \in EnqueueOutcomes :
            CardUpsellSubscription(r, result, queued)
    \/ \E r \in Reqs, http \in Https, form_ok \in BOOLEAN, currency \in Currencies,
          amount \in Amounts, sdb \in BOOLEAN :
            OneAtATime /\ PaypalUpsellRequest(r, http, form_ok, currency, amount, sdb)
    \/ \E r \in Reqs, result \in FlowResults(CustomerCreated), today \in FlowDates :
            PaypalUpsellCreateCustomer(r, result, today)
    \/ \E r \in Reqs, result \in FlowResults(SubscriptionResults), queued \in EnqueueOutcomes :
            PaypalUpsellSubscription(r, result, queued)
    \/ \E r \in Reqs, http \in Https, form_ok \in BOOLEAN, subscribed \in {"", "1"},
          sdb \in BOOLEAN, queued \in EnqueueOutcomes :
            OneAtATime /\ NewsletterRequest(r, http, form_ok, subscribed, sdb, queued)
    \/ \E r \in Reqs, http \in Https : OneAtATime /\ ThankYouRequest(r, http)
    \/ \E r \in Reqs : Finish(r)


SpecOneAtATime == Init /\ [][NextOneAtATime]_vars

\* the requests of one session as the views take them: a request starts
\* whenever a slot is free, also while another request of the session is
\* waiting for the gateway.  Two requests at a time, one currency and one
\* source page, and of the failed results the one without error codes
InterleavedResults(ok) == ok \cup {[kind |-> "fail", deep_errors |-> <<>>], Unavailable}
InterleavedSaleResults(r) == {x \in SaleResults(r) : x.settlement_amount # NoneVal}
Next ==
    \/ \E r \in Reqs, http \in Https, frequency \in UrlFrequencies, start_ok \in BOOLEAN,
          currency \in {"usd"}, page \in {7}, form_ok \in BOOLEAN,
          amount \in Amounts, sdb \in BOOLEAN :
            CardPaymentRequest(r, http, frequency, start_ok, currency, page,
                                             form_ok, amount, sdb)
    \/ \E r \in Reqs, result \in InterleavedResults(CustomerCreated) : CardCreateCustomer(r, result)
    \/ \E r \in Reqs, queued \in EnqueueOutcomes :
            \E result \in InterleavedResults(InterleavedSaleResults(r)) : CardSale(r, result, queued)
    \/ \E r \in Reqs, result \in InterleavedResults(SubscriptionResults), queued \in EnqueueOutcomes :
            CardSubscription(r, result, queued)
    \/ \E r \in Reqs, http \in Https, form_ok \in BOOLEAN, frequency \in FREQUENCIES,
          currency \in {"usd"}, page \in {7}, amount \in Amounts, sdb \in BOOLEAN :
            PaypalPaymentRequest(r, http, form_ok, frequency, currency, page,
                                               amount, sdb)
    \/ \E r \in Reqs, queued \in EnqueueOutcomes :
            \E result \in InterleavedResults(InterleavedSaleResults(r)) : PaypalSale(r, result, queued)
    \/ \E r \in Reqs, result \in InterleavedResults(CustomerCreated) : PaypalCreateCustomer(r, result)
    \/ \E r \in Reqs, result \in InterleavedResults(SubscriptionResults), queued \in EnqueueOutcomes :
            PaypalSubscription(r, result, queued)
    \/ \E r \in Reqs, http \in Https, form_ok \in BOOLEAN, amount \in {10},
          sdb \in BOOLEAN, today \in FlowDates :
            CardUpsellRequest(r, http, form_ok, amount, sdb, today)
    \/ \E r \in Reqs, result \in InterleavedResults(SubscriptionResults), queued \in EnqueueOutcomes :
            CardUpsellSubscription(r, result, queued)
    \/ \E r \in Reqs, http \in Https, form_ok \in BOOLEAN, currency \in {"usd"},
          amount \in {10}, sdb \in BOOLEAN :
            PaypalUpsellRequest(r, http, form_ok, currency, amount, sdb)
    \/ \E r \in Reqs, result \in InterleavedResults(CustomerCreated), today \in FlowDates :
            PaypalUpsellCreateCustomer(r, result, today)
    \/ \E r \in Reqs, result \in InterleavedResults(SubscriptionResults), queued \in EnqueueOutcomes :
            PaypalUpsellSubscription(r, result, queued)
    \/ \E r \in Reqs, http \in Https, form_ok \in BOOLEAN, subscribed \in {"", "1"},
          sdb \in BOOLEAN, queued \in EnqueueOutcomes :
            NewsletterRequest(r, http, form_ok, subscribed, sdb, queued)
    \/ \E r \in Reqs, http \in Https : ThankYouRequest(r, http)
    \/ \E r \in Reqs : Finish(r)

Spec == Init /\ [][Next]_vars

\* one card payment attempt in a fresh session, with every error list of up to
\* MaxErrs codes; what the attempt shows is decided by its own gateway results,
\* so it is followed alone
NextCardAttempt ==
    \/ \E r \in Reqs, http \in Https, frequency \in UrlFrequencies, start_ok \in BOOLEAN,
          currency \in Currencies, page \in SourcePages, form_ok \in BOOLEAN,
          amount \in Amounts, sdb \in BOOLEAN :
            /\ OneAtATime
            /\ session = EmptyDict
            /\ CardPaymentRequest(r, http, frequency, start_ok, currency, page,
                                  form_ok, amount, sdb)
    \/ \E r \in Reqs, result \in CardResults(CustomerCreated) : CardCreateCustomer(r, result)
    \/ \E r \in Reqs, queued \in EnqueueOutcomes :
            \E result \in CardResults(SaleResults(r)) : CardSale(r, result, queued)
    \/ \E r \in Reqs, result \in CardResults(SubscriptionResults), queued \in EnqueueOutcomes :
            CardSubscription(r, result, queued)

SpecCardAttempt == Init /\ [][NextCardAttempt]_vars

\* a single payment by card or by PayPal in a fresh session, then an upsell
\* submitted on any of the dates; the first billing date is computed from the
\* date of the submission alone, so each submission is followed alone
NextUpsellDates ==
    \/ \E r \in Reqs, currency \in {"usd"} :
            /\ OneAtATime
            /\ session = EmptyDict
            /\ CardPaymentRequest(r, "POST", FREQUENCY_SINGLE, TRUE, currency, 7,
                                  TRUE, 50, FALSE)
    \/ \E r \in Reqs, result \in CustomerCreated : CardCreateCustomer(r, result)
    \/ \E r \in Reqs : \E result \in SaleResults(r) : CardSale(r, result, TRUE)
    \/ \E r \in Reqs, currency \in {"usd"} :
            /\ OneAtATime
            /\ session = EmptyDict
            /\ PaypalPaymentRequest(r, "POST", TRUE, FREQUENCY_SINGLE, currency, 7,
                                    50, FALSE)
    \/ \E r \in Reqs : \E result \in SaleResults(r) : PaypalSale(r, result, TRUE)
    \/ \E r \in Reqs, today \in Dates :
            OneAtATime /\ CardUpsellRequest(r, "POST", TRUE, 10, FALSE, today)
    \/ \E r \in Reqs, result \in SubscriptionResults \cup {Unavailable} :
            CardUpsellSubscription(r, result, TRUE)
    \/ \E r \in Reqs, currency \in {"usd"} :
            OneAtATime /\ PaypalUpsellRequest(r, "POST", TRUE, currency, 10, FALSE)
    \/ \E r \in Reqs, result \in CustomerCreated, today \in Dates :
            PaypalUpsellCreateCustomer(r, result, today)
    \/ \E r \in Reqs, result \in SubscriptionResults \cup {Unavailable} :
            PaypalUpsellSubscription(r, result, TRUE)
    \/ \E r \in Reqs : Finish(r)

SpecUpsellDates == Init /\ [][NextUpsellDates]_vars

(***************************************************************************)
(* Properties                                                              *)
(***************************************************************************)
Last(seq) == seq[Len(seq)]
UpsellViews == {CardUpsellView, PaypalUpsellView}
ChargeOps == {"transaction.sale", "subscription.create"}
\* the request in slot r is answered by this step
AnsweredNow(r) == InFlight(r) /\ req'[r].pc = "done"
\* the request in slot r succeeds in this step
SucceedsNow(r) == AnsweredNow(r) /\ req'[r].wrote_session
\* the request in slot r has been answered after a gateway call failed or raised
FailedAttempt(r) ==
    /\ req[r].pc = "done"
    /\ req[r].calls # <<>>
    /\ Last(req[r].calls).result.kind # "ok"
HasCode(deep_errors, codes) == \E i \in DOMAIN deep_errors : deep_errors[i] \in codes
\* the card attempt in slot r has ended with a failed result of the gateway
CardFailure(r) ==
    /\ req[r].view = CardView
    /\ req[r].pc = "done"
    /\ req[r].calls # <<>>
    /\ Last(req[r].calls).result.kind = "fail"
FailedCodes(r) == Last(req[r].calls).result.deep_errors

\* C1: the session is written only by success(), in the step in which the
\* terminal gateway call of the attempt (sale or subscription create) returned
\* is_success; a step that ends an attempt after a failed or raised gateway
\* call leaves completed_transaction_details and source_page_id as they were.
C1_SessionWrittenOnlyOnGatewaySuccess ==
    [][/\ (session' # session) =>
            \E r \in Reqs :
                /\ AnsweredNow(r)
                /\ req'[r].wrote_session
                /\ Len(req'[r].calls) = Len(req[r].calls) + 1
                /\ Last(req'[r].calls).op \in ChargeOps
                /\ Last(req'[r].calls).result.kind = "ok"
                /\ \A i \in DOMAIN req'[r].calls : req'[r].calls[i].result.kind = "ok"
       /\ \A r \in Reqs :
            (AnsweredNow(r) /\ Last(req'[r].calls).result.kind # "ok") =>
                /\ session' = session
                /\ ~req'[r].wrote_session
      ]_vars

\* a failed attempt has ended in a session that holds the record of an earlier
\* payment
C1_Witness ==
    \E r \in Reqs :
        /\ FailedAttempt(r)
        /\ Last(req[r].calls).op \in ChargeOps
        /\ HasKey(session, CTD)
        /\ HasKey(session, SPI)

\* C2: a request to the card upsell, PayPal upsell or thank-you step in a
\* session without a completed-transaction record is answered with a redirect
\* to '/', never with an exception, and makes no gateway call.
C2_NoRecordRedirectsToEntry ==
    \A r \in Reqs :
        (/\ req[r].pc = "done"
         /\ req[r].view \in UpsellViews \cup {ThankYouView}
         /\ NoCompletedTransaction(session)) =>
            /\ req[r].response = Redirect("/")
            /\ req[r].calls = <<>>

\* C3: a failed result of the card flow with an address code anywhere in its
\* error list sets gateway_address_errors to the address message and adds no
\* message to the form.
C3_AddressErrorHasPriority ==
    \A r \in Reqs :
        (CardFailure(r) /\ HasCode(FailedCodes(r), AddressCodes)) =>
            /\ req[r].gateway_address_errors = <<"The post code you provided is not valid.">>
            /\ req[r].form_errors = <<>>
            /\ req[r].response = Render(CardTemplate)

\* an address code came second, after a card code
C3_Witness ==
    \E r \in Reqs :
        /\ CardFailure(r)
        /\ Len(FailedCodes(r)) = 2
        /\ FailedCodes(r)[1] \in CardCodes
        /\ FailedCodes(r)[2] \in AddressCodes
        /\ req[r].gateway_address_errors # <<>>

\* C4: a failed result of the card flow with no error, or with only codes that
\* are neither address codes nor mapped card codes, puts exactly the generic
\* message on the form and nothing else.
C4_UnmappedCodesGiveGenericMessage ==
    \A r \in Reqs :
        (CardFailure(r) /\ ~HasCode(FailedCodes(r), AddressCodes \cup CardCodes)) =>
            /\ req[r].form_errors =
                 <<"Sorry there was an error processing your payment. Please try again later or use a different payment method.">>
            /\ req[r].gateway_address_errors = <<>>

\* a card attempt failed with a code the view maps to nothing
C4_Witness ==
    \E r \in Reqs :
        /\ CardFailure(r)
        /\ FailedCodes(r) # <<>>
        /\ ~HasCode(FailedCodes(r), AddressCodes \cup CardCodes)
        /\ Len(req[r].form_errors) = 1

\* the user message of a mapped card code, as the specification lists them
CardMessage(c) ==
    CASE c = "CreditCardTypeIsNotAccepted" -> "The type of card you used is not accepted."
      [] c \in {"CvvIsInvalid", "CvvVerificationFailed"} -> "The CVV code you entered was invalid."
      [] c = "ExpirationDateIsInvalid" -> "The expiration date you entered was invalid."
      [] c = "NumberIsInvalid" -> "The credit card number you entered was invalid."
CardCodesOf(deep_errors) == SelectSeq(deep_errors, LAMBDA c : c \in CardCodes)

\* C5: a failed result of the card flow with no address code and at least one
\* mapped card code puts on the form exactly the messages of its mapped card
\* codes, one per matching error and in the order of the error list, without
\* the generic message; a charge that fails with only 'card number invalid'
\* shows exactly that one message and leaves the session without a record.
C5_CardCodesGiveTheirMessages ==
    \A r \in Reqs :
        /\ (/\ CardFailure(r)
            /\ ~HasCode(FailedCodes(r), AddressCodes)
            /\ HasCode(FailedCodes(r), CardCodes)) =>
                /\ req[r].form_errors =
                     [i \in 1..Len(CardCodesOf(FailedCodes(r))) |->
                         CardMessage(CardCodesOf(FailedCodes(r))[i])]
                /\ req[r].gateway_address_errors = <<>>
        /\ (/\ CardFailure(r)
            /\ Last(req[r].calls).op = "transaction.sale"
            /\ FailedCodes(r) = <<"NumberIsInvalid">>) =>
                /\ req[r].form_errors = <<"The credit card number you entered was invalid.">>
                /\ ~req[r].wrote_session
                /\ ~HasKey(session, CTD)

\* a sale failed with two different mapped card codes
C5_Witness ==
    \E r \in Reqs :
        /\ CardFailure(r)
        /\ Last(req[r].calls).op = "transaction.sale"
        /\ Len(FailedCodes(r)) = 2
        /\ FailedCodes(r)[1] = "NumberIsInvalid"
        /\ FailedCodes(r)[2] = "CvvIsInvalid"
        /\ Len(req[r].form_errors) = 2

\* the method an upsell view expects of the last transaction
ExpectedMethod(view) == IF view = CardUpsellView THEN "card" ELSE "paypal"
\* the session record does not qualify for the upsell of this view
Ineligible(record, view) ==
    \/ record["payment_frequency"] # "single"
    \/ record["payment_method"] # ExpectedMethod(view)
    \/ get_suggested_monthly_upgrade(record["currency"], record["amount"]) = NoneVal
\* a request to this slot starts in this step
StartsNow(r) == req[r].pc = "idle" /\ req'[r].pc # "idle"

\* C6: when the session record does not qualify for an upsell view (frequency
\* not single, method not the one of the view, or no monthly amount suggested),
\* every request to that view, GET or POST, is answered with a redirect, makes
\* no gateway call and leaves the session unchanged.
C6_IneligibleUpsellRedirects ==
    [][\A r \in Reqs :
        (/\ StartsNow(r)
         /\ req'[r].view \in UpsellViews
         /\ HasKey(session, CTD)
         /\ Ineligible(session[CTD], req'[r].view)) =>
            /\ req'[r].pc = "done"
            /\ req'[r].response.kind = "redirect"
            /\ req'[r].calls = <<>>
            /\ session' = session
      ]_vars

\* a POST to the card upsell was redirected in a session whose last
\* transaction was a single PayPal payment with a suggested upgrade
C6_Witness ==
    \E r \in Reqs :
        /\ req[r].pc = "done"
        /\ req[r].view = CardUpsellView
        /\ req[r].http = "POST"
        /\ req[r].response.kind = "redirect"
        /\ HasKey(session, CTD)
        /\ session[CTD]["payment_frequency"] = "single"
        /\ session[CTD]["payment_method"] = "paypal"
        /\ get_suggested_monthly_upgrade(session[CTD]["currency"], session[CTD]["amount"]) # NoneVal

\* C7 as stated: every upsell attempt, card or PayPal, subscribes against the
\* token stored in the session record of the original single transaction and
\* makes no customer-creation call.
C7_UpsellReusesSessionToken ==
    \A r \in Reqs :
        (req[r].view \in UpsellViews) =>
            /\ \A i \in DOMAIN req[r].calls : req[r].calls[i].op # "customer.create"
            /\ (req[r].pc = "subscription") =>
                    /\ HasKey(session[CTD], "payment_method_token")
                    /\ req[r].payment_method.token = session[CTD]["payment_method_token"]

\* C7 amended: the card upsell makes one gateway call, a subscription against
\* the token stored in the session record of the original single transaction;
\* the PayPal upsell creates a customer from the nonce of its form and makes its
\* subscription against the token of the payment method of that customer.
C7_CardUpsellReusesTokenPaypalUpsellVaults ==
    [][\A r \in Reqs :
        /\ (StartsNow(r) /\ req'[r].view = CardUpsellView /\ InFlight(r)') =>
                /\ req'[r].calls = <<>>
                /\ req'[r].payment_method.token = session[CTD]["payment_method_token"]
                /\ session[CTD]["payment_frequency"] = FREQUENCY_SINGLE
        /\ (req[r].view = CardUpsellView /\ AnsweredNow(r)) =>
                /\ Len(req'[r].calls) = 1
                /\ req'[r].calls[1].op = "subscription.create"
                /\ req'[r].calls[1].args.payment_method_token = req[r].payment_method.token
                /\ req'[r].calls[1].args.payment_method_token \in Tokens
        /\ (req[r].view = PaypalUpsellView /\ AnsweredNow(r)) =>
                /\ req'[r].calls[1].op = "customer.create"
                /\ req'[r].calls[1].args.payment_method_nonce = "paypal-upsell-nonce"
                /\ Len(req'[r].calls) = 2 =>
                        /\ req'[r].calls[1].result.kind = "ok"
                        /\ req'[r].calls[2].op = "subscription.create"
                        /\ req'[r].calls[2].args.payment_method_token =
                                req'[r].calls[1].result.token
                /\ Len(req'[r].calls) <= 2
      ]_vars

\* a card upsell has subscribed against the token of the session record
C7_Witness ==
    \E r \in Reqs :
        /\ req[r].view = CardUpsellView
        /\ req[r].pc = "done"
        /\ req[r].wrote_session
        /\ Len(req[r].calls) = 1
        /\ req[r].calls[1].args.payment_method_token \in Tokens

\* the number of calls of these operations in a log
RECURSIVE CountOps(_, _)
CountOps(calls, ops) ==
    IF calls = <<>> THEN 0
    ELSE (IF Head(calls).op \in ops THEN 1 ELSE 0) + CountOps(Tail(calls), ops)

\* C8: within one attempt every gateway operation is called at most once, a
\* call that did not succeed is the last call of the attempt and ends it, and
\* there is at most one sale or subscription call.
C8_NoRetryWithinAnAttempt ==
    \A r \in Reqs :
        /\ \A i, j \in DOMAIN req[r].calls :
                (req[r].calls[i].op = req[r].calls[j].op) => i = j
        /\ \A i \in DOMAIN req[r].calls :
                (req[r].calls[i].result.kind # "ok") =>
                    (i = Len(req[r].calls) /\ req[r].pc = "done")
        /\ CountOps(req[r].calls, ChargeOps) <= 1

\* a PayPal monthly attempt ended when its customer creation failed
C8_Witness ==
    \E r \in Reqs :
        /\ req[r].view = PaypalView
        /\ req[r].pc = "done"
        /\ Len(req[r].calls) = 1
        /\ req[r].calls[1].op = "customer.create"
        /\ req[r].calls[1].result.kind = "fail"

\* the attempts that vault a payment method first: the card view, and the
\* PayPal view when it subscribes
VaultsFirst(r, i) ==
    \/ req[r].view = CardView
    \/ req[r].view = PaypalView /\ req[r].calls[i].op = "subscription.create"

\* C9: in the card single, card monthly and PayPal monthly flows the sale or
\* subscription call is the second call of the attempt, after a customer
\* creation that succeeded, and carries the token of the payment method that
\* call created; after a failed customer creation no further call is made.
C9_ChargeFollowsCustomerCreation ==
    \A r \in Reqs :
        /\ \A i \in DOMAIN req[r].calls :
            (req[r].calls[i].op \in ChargeOps /\ VaultsFirst(r, i)) =>
                /\ i = 2
                /\ req[r].calls[1].op = "customer.create"
                /\ req[r].calls[1].result.kind = "ok"
                /\ req[r].calls[i].args.payment_method_token = req[r].calls[1].result.token
        /\ (/\ req[r].view \in {CardView, PaypalView}
            /\ req[r].calls # <<>>
            /\ req[r].calls[1].op = "customer.create"
            /\ req[r].calls[1].result.kind # "ok") =>
                (Len(req[r].calls) = 1 /\ req[r].pc = "done")

\* a card sale was made with the token of the customer created before it
C9_Witness ==
    \E r \in Reqs :
        /\ req[r].view = CardView
        /\ Len(req[r].calls) = 2
        /\ req[r].calls[2].op = "transaction.sale"
        /\ req[r].calls[2].args.payment_method_token = req[r].calls[1].result.token

\* C10: a gateway call that raises instead of returning a result ends the
\* attempt with the generic error shown to the user: no exception leaves the
\* view, and the session is not written.
C10_TransportFailureIsClassified ==
    \A r \in Reqs :
        (/\ req[r].pc = "done"
         /\ req[r].calls # <<>>
         /\ Last(req[r].calls).result.kind = "unavailable") =>
            /\ req[r].response.kind # "raise"
            /\ req[r].form_errors # <<>>
            /\ ~req[r].wrote_session

\* the keys of the snapshot an upsell view stores: its form fields, and what
\* get_transaction_details_for_session and success() add
UpsellSnapshotKeys(view) ==
    (IF view = CardUpsellView THEN {"amount"}
     ELSE {"currency", "amount", "braintree_nonce"})
    \cup {"transaction_id", "payment_method", "currency", "payment_frequency",
          "source_page_id", "locale"}
\* fields only the record of a payment view has
OriginalOnlyKeys ==
    {"payment_method_token", "last_4", "settlement_amount", "first_name", "last_name",
     "email", "address_line_1", "town", "post_code", "country", "frequency"}
\* the request in slot r is an upsell that has succeeded
UpsellSucceeded(r) ==
    /\ req[r].pc = "done"
    /\ req[r].view \in UpsellViews
    /\ req[r].wrote_session

\* C11: after an upsell has succeeded the completed-transaction record is
\* exactly the snapshot of the upsell (its form fields, the subscription id,
\* its payment method, the currency, frequency monthly, source_page_id and
\* locale): the record of the single payment is replaced, not merged, so none
\* of its other fields (payment_method_token, last_4, settlement_amount, the
\* payer fields) is left.
C11_UpsellReplacesTheRecord ==
    [][\A r \in Reqs :
        (SucceedsNow(r) /\ req[r].view \in UpsellViews) =>
            /\ DOMAIN session'[CTD] = UpsellSnapshotKeys(req[r].view)
            /\ DOMAIN session'[CTD] \cap OriginalOnlyKeys = {}
            /\ session'[CTD]["transaction_id"] = Last(req'[r].calls).result.id
            /\ session'[CTD]["amount"] = Last(req'[r].calls).args.price
            /\ session'[CTD]["payment_method"] = ExpectedMethod(req[r].view)
            /\ session'[CTD]["payment_frequency"] = FREQUENCY_MONTHLY
            /\ session'[CTD]["currency"] \in Currencies
            /\ session'[CTD]["source_page_id"] = session'[SPI]
            /\ session'[CTD]["locale"] = LANGUAGE_CODE
      ]_vars

\* a card upsell has succeeded: the record it replaced was that of a single
\* card payment, which had a token, the last four digits and the payer's name
C11_Witness ==
    \E r \in Reqs :
        /\ UpsellSucceeded(r)
        /\ req[r].view = CardUpsellView
        /\ session[CTD]["payment_method"] = METHOD_CARD
        /\ Last(req[r].calls).args.payment_method_token \in Tokens

\* the request in slot r is a payment of the given view that has succeeded with
\* a sale as its last gateway call
SingleSucceeded(r, view) ==
    /\ req[r].pc = "done"
    /\ req[r].view = view
    /\ req[r].wrote_session
    /\ Last(req[r].calls).op = "transaction.sale"

\* C12: the record written by a successful single card charge has a
\* payment_method_token that is not empty and is the token of the payment
\* method vaulted by the customer creation of the same attempt; a single PayPal
\* payment is charged with the one-time nonce of the form, makes no
\* customer-creation call, and its record has no payment-method token.
C12_SingleCardRecordHasVaultedToken ==
    [][\A r \in Reqs :
        /\ (SucceedsNow(r) /\ SingleSucceeded(r, CardView)') =>
                /\ HasKey(session'[CTD], "payment_method_token")
                /\ session'[CTD]["payment_method_token"] # None
                /\ session'[CTD]["payment_method_token"] \in Tokens
                /\ req'[r].calls[1].op = "customer.create"
                /\ session'[CTD]["payment_method_token"] = req'[r].calls[1].result.token
        /\ (SucceedsNow(r) /\ SingleSucceeded(r, PaypalView)') =>
                /\ Len(req'[r].calls) = 1
                /\ req'[r].calls[1].args.payment_method_nonce = "paypal-nonce"
                /\ "payment_method_token" \notin DOMAIN req'[r].calls[1].args
                /\ ~HasKey(session'[CTD], "payment_method_token")
        /\ (/\ req'[r].view = PaypalView
            /\ req'[r].calls # <<>>
            /\ req'[r].calls[1].op = "transaction.sale") =>
                \A i \in DOMAIN req'[r].calls : req'[r].calls[i].op # "customer.create"
      ]_vars

\* a single card charge has succeeded with the second of the tokens
C12_Witness ==
    \E r \in Reqs :
        /\ SingleSucceeded(r, CardView)
        /\ req[r].calls[1].result.token = "tok_b"
        /\ session[CTD]["payment_frequency"] = FREQUENCY_SINGLE

\* the payment method of a view
MethodOf(view) ==
    IF view \in {CardView, CardUpsellView} THEN METHOD_CARD ELSE METHOD_PAYPAL
\* payment method and frequency of the record of a session, if it has one
MethodAndFrequency(sess) ==
    IF HasKey(sess, CTD)
    THEN <<sess[CTD]["payment_method"], sess[CTD]["payment_frequency"]>>
    ELSE <<None, None>>

\* C13: payment_method and payment_frequency of the session record are those
\* of the flow that last succeeded: a success of the card view records card and
\* the frequency of the request, a success of the PayPal view records paypal
\* and the frequency of the form, a success of an upsell view records its own
\* method and monthly (never single), and no other step changes them.
C13_RecordNamesTheLastSuccessfulFlow ==
    [][/\ \A r \in Reqs :
            SucceedsNow(r) =>
                /\ session'[CTD]["payment_method"] = MethodOf(req[r].view)
                /\ req[r].view \in {CardView, PaypalView} =>
                        /\ req[r].payment_frequency \in FREQUENCIES
                        /\ session'[CTD]["payment_frequency"] = req[r].payment_frequency
                /\ req[r].view \in UpsellViews =>
                        session'[CTD]["payment_frequency"] = FREQUENCY_MONTHLY
       /\ (\A r \in Reqs : ~SucceedsNow(r)) =>
            MethodAndFrequency(session') = MethodAndFrequency(session)
      ]_vars

\* the record is that of a monthly PayPal payment, and a later request has
\* been answered without changing it
C13_Witness ==
    \E r \in Reqs :
        /\ req[r].pc = "done"
        /\ ~req[r].wrote_session
        /\ MethodAndFrequency(session) = <<METHOD_PAYPAL, FREQUENCY_MONTHLY>>
        /\ "braintree_nonce" \notin DOMAIN session[CTD]

\* the last day of a month, from the calendar
LastDayOfMonth(y, m) ==
    LET leap == y % 4 = 0 /\ (y % 100 # 0 \/ y % 400 = 0)
    IN  <<31, IF leap THEN 29 ELSE 28, 31, 30, 31, 30, 31, 31, 30, 31, 30, 31>>[m]
\* the same day of the following month, or the last day of that month when it
\* is shorter; December is followed by January of the next year
OneCalendarMonthLater(d) ==
    IF d.month = 12 THEN [year |-> d.year + 1, month |-> 1, day |-> d.day]
    ELSE [year |-> d.year, month |-> d.month + 1,
          day |-> IF d.day > LastDayOfMonth(d.year, d.month + 1)
                  THEN LastDayOfMonth(d.year, d.month + 1)
                  ELSE d.day]

\* C14: for every date on which an upsell is submitted, the first_billing_date
\* either upsell view passes to subscription.create is one calendar month
\* later: the same day of the following month, the last day of that month when
\* it has no such day (31 January gives 28 or 29 February), and a date in
\* December gives the date in January of the next year.
C14_FirstBillingIsOneCalendarMonthLater ==
    [][\A r \in Reqs :
            (/\ req[r].view \in UpsellViews
             /\ req[r].pc = "subscription"
             /\ AnsweredNow(r)) =>
                /\ Last(req'[r].calls).op = "subscription.create"
                /\ Last(req'[r].calls).args.first_billing_date
                        = OneCalendarMonthLater(req[r].today)
                /\ Last(req'[r].calls).args.first_billing_date.day
                        <= LastDayOfMonth(Last(req'[r].calls).args.first_billing_date.year,
                                          Last(req'[r].calls).args.first_billing_date.month)
      ]_vars

\* a card upsell submitted on 31 January of a leap year is about to create its
\* subscription with 29 February as the first billing date
C14_Witness ==
    \E r \in Reqs :
        /\ req[r].pc = "subscription"
        /\ req[r].view = CardUpsellView
        /\ req[r].today = [year |-> 2020, month |-> 1, day |-> 31]
        /\ req[r].start_date = [year |-> 2020, month |-> 2, day |-> 29]

\* C15: a failure of queue.enqueue, for the transaction payload or for the
\* newsletter payload, does not fail the request: a request that has written
\* the session record ends with the redirect of its flow and the record is
\* kept, and a newsletter signup ends with its redirect or its form, never
\* with an exception.
C15_EnqueueFailureDoesNotFailTheRequest ==
    \A r \in Reqs :
        req[r].pc = "done" =>
            /\ req[r].wrote_session =>
                    /\ req[r].response.kind = "redirect"
                    /\ HasKey(session, CTD)
            /\ req[r].view = NewsletterView =>
                    req[r].response.kind \in {"redirect", "render"}

\* C16: the payload NewsletterSignupView.form_valid enqueues for
\* send_newsletter_subscription_to_basket has the fields of the submitted form
\* together with 'source_url' and 'lang'.
C16_NewsletterPayloadHasSourceUrlAndLang ==
    \A r \in Reqs :
        (/\ req[r].pc = "done"
         /\ req[r].view = NewsletterView
         /\ req[r].enqueued # <<>>) =>
            /\ Len(req[r].enqueued) = 1
            /\ req[r].enqueued[1].task = "send_newsletter_subscription_to_basket"
            /\ DOMAIN NewsletterCleanedData \subseteq DOMAIN req[r].enqueued[1].payload
            /\ HasKey(req[r].enqueued[1].payload, "source_url")
            /\ HasKey(req[r].enqueued[1].payload, "lang")

\* C17: in the PayPal payment flow every gateway failure, of the single sale,
\* of the customer creation or of the subscription creation, whether the call
\* returns a failed result or raises, is answered with the PayPal entry view
\* rendered again, with no error put on the form, and the session is left as
\* it was.
C17_PaypalFailureRendersEntryView ==
    [][\A r \in Reqs :
            (/\ AnsweredNow(r)
             /\ req[r].view = PaypalView
             /\ Last(req'[r].calls).result.kind # "ok") =>
                /\ req'[r].response = Render(PaypalTemplate)
                /\ req'[r].form_errors = <<>>
                /\ req'[r].gateway_address_errors = <<>>
                /\ req'[r].enqueued = <<>>
                /\ ~req'[r].wrote_session
                /\ session' = session
      ]_vars

\* the attempt in slot r has created its customer and the call after that has
\* failed or raised
FailedAfterVaulting(r) ==
    /\ Len(req[r].calls) >= 2
    /\ req[r].calls[1].op = "customer.create"
    /\ req[r].calls[1].result.kind = "ok"
    /\ req[r].calls[2].result.kind # "ok"

\* C18: when the charge or subscription step fails after the customer creation
\* of the same attempt has succeeded, the attempt makes no further gateway
\* call: nothing deletes or changes the customer and its vaulted payment
\* method, and no charge or subscription of that attempt has succeeded.
C18_NoCompensationAfterVaulting ==
    \A r \in Reqs :
        FailedAfterVaulting(r) =>
            /\ req[r].pc = "done"
            /\ Len(req[r].calls) = 2
            /\ req[r].calls[2].op \in ChargeOps
            /\ req[r].calls[2].args.payment_method_token = req[r].calls[1].result.token
            /\ \A i \in DOMAIN req[r].calls :
                    /\ req[r].calls[i].op \in {"customer.create"} \cup ChargeOps
                    /\ req[r].calls[i].op \in ChargeOps => req[r].calls[i].result.kind # "ok"
            /\ ~req[r].wrote_session

\* a single card payment has ended with a failed sale after its customer was
\* created
C18_Witness ==
    \E r \in Reqs :
        /\ FailedAfterVaulting(r)
        /\ req[r].view = CardView
        /\ req[r].calls[2].op = "transaction.sale"
        /\ req[r].calls[2].result.kind = "fail"

\* the record of the session is the snapshot of an upsell
UpsellRecord(sess) ==
    /\ HasKey(sess, CTD)
    /\ \E view \in UpsellViews : DOMAIN sess[CTD] = UpsellSnapshotKeys(view)

\* C19: with the requests of a session handled one at a time, an upsell that
\* has succeeded leaves a record that qualifies for neither upsell view; while
\* that record is in the session every request to either upsell view is
\* redirected to the newsletter step without a gateway call; and the record
\* stays until a payment view succeeds.  So a completed single donation gets
\* at most one upsell subscription.
C19_NoSecondUpsellAfterASuccessfulOne ==
    [][/\ \A r \in Reqs :
            (SucceedsNow(r) /\ req[r].view \in UpsellViews) =>
                /\ UpsellRecord(session')
                /\ \A view \in UpsellViews : Ineligible(session'[CTD], view)
       /\ \A r \in Reqs :
            (/\ StartsNow(r)
             /\ req'[r].view \in UpsellViews
             /\ UpsellRecord(session)) =>
                /\ req'[r].pc = "done"
                /\ req'[r].response = Redirect(NewsletterUrl)
                /\ req'[r].calls = <<>>
                /\ session' = session
       /\ (UpsellRecord(session) /\ session' # session) =>
            \E r \in Reqs : SucceedsNow(r) /\ req[r].view \in {CardView, PaypalView}
      ]_vars

\* after a successful upsell a POST to the card upsell view was redirected
C19_Witness ==
    \E r \in Reqs :
        /\ UpsellRecord(session)
        /\ session[CTD]["payment_method"] = METHOD_CARD
        /\ req[r].pc = "done"
        /\ req[r].view = CardUpsellView
        /\ req[r].http = "POST"
        /\ req[r].response = Redirect(NewsletterUrl)
        /\ req[r].calls = <<>>

\* the upsell request in slot r has created a subscription
Subscribed(r) ==
    /\ req[r].view \in UpsellViews
    /\ req[r].calls # <<>>
    /\ Last(req[r].calls).op = "subscription.create"
    /\ Last(req[r].calls).result.kind = "ok"

\* C20: nothing keeps two submissions of one session apart.  While a payment
\* or an upsell is waiting for the gateway, a second submission to the same
\* view is taken and goes on to the gateway as long as the session record
\* still qualifies (for a payment view: always), and a submission that has
\* passed the check of its dispatch makes its gateway call whatever has been
\* written to the session since: the check of the session record at dispatch
\* is the only thing that turns a duplicate away.
C20_ConcurrentDuplicatesAreNotPrevented ==
    \A r \in Reqs : \A q \in Reqs \ {r} :
        /\ (req[r].view = CardUpsellView /\ InFlight(r)) =>
                /\ ENABLED CardUpsellSubscription(r, SubscriptionCreatedResult, TRUE)
                /\ (/\ req[q].pc = "idle"
                    /\ HasKey(session, CTD)
                    /\ ~Ineligible(session[CTD], CardUpsellView)) =>
                        ENABLED (/\ \E today \in FlowDates :
                                        CardUpsellRequest(q, "POST", TRUE, 10, FALSE, today)
                                 /\ req'[q].pc = "subscription")
        /\ (req[r].view = PaypalUpsellView /\ InFlight(r)) =>
                /\ ENABLED (\/ \E result \in CustomerCreated, today \in FlowDates :
                                    PaypalUpsellCreateCustomer(r, result, today)
                            \/ PaypalUpsellSubscription(r, SubscriptionCreatedResult, TRUE))
                /\ (/\ req[q].pc = "idle"
                    /\ HasKey(session, CTD)
                    /\ ~Ineligible(session[CTD], PaypalUpsellView)) =>
                        ENABLED (/\ PaypalUpsellRequest(q, "POST", TRUE, "usd", 10, FALSE)
                                 /\ req'[q].pc = "create_customer")
        /\ (req[r].view = CardView /\ InFlight(r) /\ req[q].pc = "idle") =>
                ENABLED (/\ CardPaymentRequest(q, "POST", FREQUENCY_SINGLE, TRUE, "usd", 7,
                                               TRUE, 50, FALSE)
                         /\ req'[q].pc = "create_customer")
        /\ (req[r].view = PaypalView /\ InFlight(r) /\ req[q].pc = "idle") =>
                ENABLED (/\ PaypalPaymentRequest(q, "POST", TRUE, FREQUENCY_SINGLE, "usd", 7,
                                                 50, FALSE)
                         /\ req'[q].pc = "sale")

\* two card upsell submissions of one session have each created a
\* subscription against the token of the same single donation, and both have
\* written the session record
C20_Witness ==
    \E r \in Reqs : \E q \in Reqs \ {r} :
        /\ Subscribed(r) /\ Subscribed(q)
        /\ req[r].view = CardUpsellView /\ req[q].view = CardUpsellView
        /\ req[r].wrote_session /\ req[q].wrote_session
        /\ Last(req[r].calls).args.payment_method_token
                = Last(req[q].calls).args.payment_method_token

\* the steps that follow a payment
LaterViews == UpsellViews \cup {NewsletterView, ThankYouView}
LaterUrls == {"payments:card_upsell", "payments:paypal_upsell", NewsletterUrl, CompletedUrl}

\* C21: the steps hand over in order: a successful single card payment
\* redirects to the card upsell and a successful single PayPal payment to the
\* PayPal upsell; a successful monthly payment, a successful upsell and an
\* upsell request the record does not qualify for redirect to the newsletter
\* step; a newsletter submission that was accepted redirects to the completed
\* step; and without the record of a successful payment no later step is
\* shown, calls the gateway or hands over to a further step.
C21_StepsHandOverInOrder ==
    \A r \in Reqs :
        req[r].pc = "done" =>
            /\ (req[r].wrote_session /\ req[r].view = CardView) =>
                    req[r].response =
                        Redirect(IF session[CTD]["payment_frequency"] = FREQUENCY_SINGLE
                                 THEN "payments:card_upsell" ELSE NewsletterUrl)
            /\ (req[r].wrote_session /\ req[r].view = PaypalView) =>
                    req[r].response =
                        Redirect(IF session[CTD]["payment_frequency"] = FREQUENCY_SINGLE
                                 THEN "payments:paypal_upsell" ELSE NewsletterUrl)
            /\ (req[r].wrote_session /\ req[r].view \in UpsellViews) =>
                    req[r].response = Redirect(NewsletterUrl)
            /\ (/\ req[r].view \in UpsellViews
                /\ HasKey(session, CTD)
                /\ ~req[r].wrote_session
                /\ Ineligible(session[CTD], req[r].view)) =>
                    req[r].response = Redirect(NewsletterUrl)
            /\ (req[r].view = NewsletterView /\ HasKey(session, CTD)) =>
                    req[r].response \in {Redirect(CompletedUrl),
                                         Render("payment/newsletter_signup.html")}
            /\ (req[r].view \in LaterViews /\ ~HasKey(session, CTD)) =>
                    /\ req[r].response.kind # "render"
                    /\ req[r].calls = <<>>
                    /\ \A to \in LaterUrls : req[r].response # Redirect(to)

PaymentAndUpsellViews == {CardView, PaypalView} \cup UpsellViews

\* C22: a payment or upsell that succeeds with send_data_to_basket true hands
\* exactly one transaction-completed notification to the queue, after the
\* session record has been written (the record is in the session whatever the
\* queue does with the job), and the payload is the frozen details stored in
\* the session, source_page_id and locale included; with send_data_to_basket
\* false nothing is enqueued, and an attempt that ends without success, at
\* whichever gateway step, enqueues nothing.
C22_OneNotificationPerSuccess ==
    [][\A r \in Reqs :
        /\ (SucceedsNow(r) /\ req[r].send_data_to_basket) =>
                /\ Len(req'[r].enqueued) = 1
                /\ req'[r].enqueued[1].task = "send_transaction_to_basket"
                /\ HasKey(session', CTD)
                /\ req'[r].enqueued[1].payload = session'[CTD]
                /\ HasKey(req'[r].enqueued[1].payload, "source_page_id")
                /\ req'[r].enqueued[1].payload["source_page_id"] = session'[SPI]
                /\ HasKey(req'[r].enqueued[1].payload, "locale")
        /\ (SucceedsNow(r) /\ ~req[r].send_data_to_basket) =>
                req'[r].enqueued = <<>>
        /\ (/\ AnsweredNow(r)
            /\ req[r].view \in PaymentAndUpsellViews
            /\ ~req'[r].wrote_session) =>
                req'[r].enqueued = <<>>
        /\ (req[r].view \in PaymentAndUpsellViews /\ req[r].pc # "done") =>
                req[r].enqueued = <<>>
      ]_vars

\* a card upsell has succeeded and its one notification was handed to a queue
\* that did not take it: the record it carries is in the session
C22_Witness ==
    \E r \in Reqs :
        /\ req[r].pc = "done"
        /\ req[r].view = CardUpsellView
        /\ req[r].wrote_session
        /\ Len(req[r].enqueued) = 1
        /\ ~req[r].enqueued[1].queued
        /\ req[r].enqueued[1].payload = session[CTD]

\* C23: in every session record, whichever flow wrote it, settlement_amount is
\* one scalar value or None (or absent), never a tuple or another container:
\* the single card flow and the single PayPal flow store it the same way.
C23_SettlementAmountIsScalar ==
    (HasKey(session, CTD) /\ HasKey(session[CTD], "settlement_amount")) =>
        session[CTD]["settlement_amount"].kind \in {"none", "scalar"}

====
